---- MODULE Spec2Model ----
(***************************************************************************)
(* A model of the risp evaluator of rustyreef (src/src/risp): the value    *)
(* model (val.rs), the environment (env.rs) and the tree-walking evaluator *)
(* with its builtins (eval.rs).                                            *)
(*                                                                         *)
(* Values are records tagged by t.  A Float is an exact rational p/q with  *)
(* q >= 0 in lowest terms; q = 0 stands for the IEEE specials (p = 1 is    *)
(* +inf, p = -1 is -inf, p = 0 is NaN).  Times, dates and datetimes are    *)
(* points on an integer axis.  The outcome of a call is Ok(v), Err(e) or   *)
(* Panic(why): a Rust panic (unreachable!, index out of bounds, division   *)
(* by zero) aborts the evaluator instead of returning a result.            *)
(***************************************************************************)
EXTENDS Integers, Sequences, FiniteSets, TLC

VARIABLES
  env,     \* Env::data: the bindings of the session's environment
  expr,    \* the tree handed to eval, or the name handed to Env::get
  result,  \* what the call returned
  op,      \* the call the session made last
  tree,    \* the caller's tree as eval left it
  puts,    \* history: for every name put so far, the value of its latest put
  atom,    \* the literal a round trip starts from
  text,    \* its rendered text, a sequence of characters
  i2c,     \* the transactions the sensor driver issued on the bus in its last call
  buffer,  \* the receive buffer of that call
  answer   \* what that call returned

vars == <<env, expr, result, op, tree, puts, atom, text, i2c, buffer, answer>>

\* the variables of the round trip and of the sensor driver
tripVars == <<atom, text>>

rtdVars == <<i2c, buffer, answer>>

----------------------------------------------------------------------------
(* Bounds of the model *)

\* longest argument list of a generated call
MaxArgs == 3

\* longest form list of a generated top-level program
MaxForms == 3

\* largest magnitude of the numerator of a literal that is rendered and parsed
MaxLit == 12

\* length of the receive buffer of the sensor driver in the model (14 in the code)
RtdBufLen == 3

----------------------------------------------------------------------------
(* val.rs: the value model *)

Bool(b) == [t |-> "Bool", b |-> b]

Num(n) == [t |-> "Num", n |-> n]

Abs(n) == IF n < 0 THEN -n ELSE n

Sgn(n) == IF n < 0 THEN -1 ELSE IF n > 0 THEN 1 ELSE 0

RECURSIVE Gcd(_, _)
Gcd(a, b) == IF b = 0 THEN a ELSE Gcd(b, a % b)

\* the f64 with value p/q (q >= 0), in lowest terms
Float(p, q) ==
  IF q = 0 THEN [t |-> "Float", p |-> Sgn(p), q |-> 0]
  ELSE LET g == Gcd(Abs(p), q) IN [t |-> "Float", p |-> p \div g, q |-> q \div g]

Sym(s) == [t |-> "Sym", s |-> s]

List(cells) == [t |-> "List", cells |-> cells]

Risp(cells) == [t |-> "Risp", cells |-> cells]

\* Val::Fun(ValFun::Builtin(name, fp)): fp is named by the builtin it points to
Fun(name, fp) == [t |-> "Fun", name |-> name, fp |-> fp]

Time(s) == [t |-> "Time", at |-> s]

Date(d) == [t |-> "Date", at |-> d]

DateTime(s) == [t |-> "DateTime", at |-> s]

\* derived PartialEq of Val, with ValFun compared by name only
ValEq(x, y) ==
  IF x.t = "Fun" /\ y.t = "Fun" THEN x.name = y.name
  ELSE IF x.t = "Float" /\ y.t = "Float" /\ x.q = 0 /\ x.p = 0 THEN FALSE
  ELSE x = y

(* result.rs / error.rs *)

Ok(v) == [k |-> "Ok", v |-> v]

Err(e) == [k |-> "Err", e |-> e]

Panic(why) == [k |-> "Panic", why |-> why]

ArgumentMismatch == [e |-> "ArgumentMismatch"]

NoChildren == [e |-> "NoChildren"]

NotANumber == [e |-> "NotANumber"]

NumArguments(expected, received) ==
  [e |-> "NumArguments", expected |-> expected, received |-> received]

UnknownFunction(s) == [e |-> "UnknownFunction", name |-> s]

WrongType(expected) == [e |-> "WrongType", expected |-> expected]

IsOk(r) == r.k = "Ok"

IsErr(r) == r.k = "Err"

IsPanic(r) == r.k = "Panic"

\* Val::as_num
AsNum(v) == IF v.t = "Num" THEN Ok(v.n) ELSE Err(NotANumber)

RemoveAt(s, i) == [j \in 1..(Len(s) - 1) |-> IF j < i THEN s[j] ELSE s[j + 1]]

\* val_pop(v, i) with i counted from 0: the child, and the remaining children
ValPop(v, i) ==
  IF v.t \notin {"List", "Risp"} THEN Err(NoChildren)
  ELSE IF i < 0 \/ i >= Len(v.cells) THEN Panic("index out of bounds")
  ELSE [k |-> "Ok", v |-> v.cells[i + 1],
        rest |-> [v EXCEPT !.cells = RemoveAt(v.cells, i + 1)]]

\* val_add
ValAdd(v, x) ==
  IF v.t \in {"List", "Risp"} THEN Ok([v EXCEPT !.cells = Append(v.cells, x)])
  ELSE Err(NoChildren)

\* Ordering of two integers
CmpInt(a, b) == IF a < b THEN "Less" ELSE IF a > b THEN "Greater" ELSE "Equal"

\* f64::partial_cmp on p1/q1 and p2/q2; "None" when either is NaN
CmpFloat(p1, q1, p2, q2) ==
  IF (q1 = 0 /\ p1 = 0) \/ (q2 = 0 /\ p2 = 0) THEN "None"
  ELSE IF q1 = 0 /\ q2 = 0 THEN CmpInt(p1, p2)
  ELSE CmpInt(p1 * q2, p2 * q1)

\* a partial_cmp that orders two Bools as well, false before true
PartialCmpBools(x, y) ==
  IF x.t = "Float" THEN
    IF y.t = "Num" THEN CmpFloat(x.p, x.q, y.n, 1)
    ELSE IF y.t = "Float" THEN CmpFloat(x.p, x.q, y.p, y.q)
    ELSE "None"
  ELSE IF x.t = "Num" THEN
    IF y.t = "Num" THEN CmpInt(x.n, y.n)
    ELSE IF y.t = "Float" THEN CmpFloat(x.n, 1, y.p, y.q)
    ELSE "None"
  ELSE IF x.t = "Bool" /\ y.t = "Bool"
    THEN CmpInt(IF x.b THEN 1 ELSE 0, IF y.b THEN 1 ELSE 0)
  ELSE "None"

\* impl PartialOrd for Val: only Num and Float are ordered
PartialCmp(x, y) ==
  IF x.t = "Float" THEN
    IF y.t = "Num" THEN CmpFloat(x.p, x.q, y.n, 1)
    ELSE IF y.t = "Float" THEN CmpFloat(x.p, x.q, y.p, y.q)
    ELSE "None"
  ELSE IF x.t = "Num" THEN
    IF y.t = "Num" THEN CmpInt(x.n, y.n)
    ELSE IF y.t = "Float" THEN CmpFloat(x.n, 1, y.p, y.q)
    ELSE "None"
  ELSE "None"

----------------------------------------------------------------------------
(* env.rs: the environment *)

FoldBuiltins ==
  {"add", "sub", "mul", "div", "rem", "min", "max", "gt", "lt", "ge", "le", "eq"}

\* the names Env::new installs with add_builtin, each with the builtin it points to
BuiltinTable ==
  [add |-> "add", sub |-> "sub", mul |-> "mul", div |-> "div", rem |-> "rem",
   min |-> "min", max |-> "max", gt |-> "gt", lt |-> "lt", ge |-> "ge",
   le |-> "le", eq |-> "eq", ne |-> "ne", if |-> "if", now |-> "now",
   and |-> "and", or |-> "or", not |-> "not"]
  @@ ("+" :> "add") @@ ("-" :> "sub") @@ ("*" :> "mul") @@ ("/" :> "div")
  @@ ("%" :> "rem") @@ (">" :> "gt") @@ ("<" :> "lt") @@ (">=" :> "ge")
  @@ ("<=" :> "le") @@ ("==" :> "eq") @@ ("!=" :> "ne")

\* a put that leaves a name that is bound as it is
EnvPutIfAbsent(data, name, val) ==
  IF name \in DOMAIN data THEN data ELSE data @@ (name :> val)

\* Env::put: insert if absent, overwrite if the stored value differs
EnvPut(data, name, val) ==
  IF name \in DOMAIN data
  THEN IF ~ValEq(val, data[name]) THEN [data EXCEPT ![name] = val] ELSE data
  ELSE data @@ (name :> val)

\* Env::new(None): the builtins, then the constants true, false and nil
EnvNew ==
  LET builtins == [name \in DOMAIN BuiltinTable |-> Fun(name, BuiltinTable[name])]
  IN EnvPut(EnvPut(EnvPut(builtins, "true", Bool(TRUE)), "false", Bool(FALSE)),
            "nil", Bool(FALSE))

\* a get that binds a name it does not find
EnvAfterGetInserting(data, k) ==
  IF k \in DOMAIN data THEN data ELSE data @@ (k :> [t |-> "Bool", b |-> FALSE])

\* Env::get takes &self: the bindings after the call
EnvAfterGet(data, k) == data

\* a get whose error does not carry the name asked for
EnvGetNameless(data, k) ==
  IF k \in DOMAIN data THEN Ok(data[k]) ELSE Err(UnknownFunction(""))

\* Env::get
EnvGet(data, k) ==
  IF k \in DOMAIN data THEN Ok(data[k]) ELSE Err(UnknownFunction(k))

----------------------------------------------------------------------------
(* eval.rs: arithmetic *)

\* i64 division, truncating toward zero
TruncDiv(a, b) == Sgn(a) * Sgn(b) * (Abs(a) \div Abs(b))

\* std::ops on two i64: division and remainder by zero panic
NumOp(func, a, b) ==
  CASE func = "add" -> Ok(Num(a + b))
    [] func = "sub" -> Ok(Num(a - b))
    [] func = "mul" -> Ok(Num(a * b))
    [] func = "div" ->
         IF b = 0 THEN Panic("attempt to divide by zero")
         ELSE Ok(Num(TruncDiv(a, b)))
    [] func = "rem" ->
         IF b = 0
         THEN Panic("attempt to calculate the remainder with a divisor of zero")
         ELSE Ok(Num(a - b * TruncDiv(a, b)))

\* std::ops on two f64, p1/q1 and p2/q2
FloatOp(func, p1, q1, p2, q2) ==
  CASE func = "add" ->
         IF q1 = 0 /\ q2 = 0 THEN Float(IF p1 = p2 THEN p1 ELSE 0, 0)
         ELSE Float(p1 * q2 + p2 * q1, q1 * q2)
    [] func = "sub" ->
         IF q1 = 0 /\ q2 = 0 THEN Float(IF p1 = -p2 THEN p1 ELSE 0, 0)
         ELSE Float(p1 * q2 - p2 * q1, q1 * q2)
    [] func = "mul" -> Float(p1 * p2, q1 * q2)
    [] func = "div" ->
         LET s == IF p2 < 0 THEN -1 ELSE 1
         IN Float(s * p1 * q2, q1 * Abs(p2))
    [] func = "rem" ->
         IF q1 = 0 \/ p2 = 0 THEN Float(0, 0)
         ELSE IF q2 = 0 THEN Float(p1, q1)
         ELSE Float(p1 * q2 - TruncDiv(p1 * q2, q1 * p2) * p2 * q1, q1 * q2)

\* an apply_binop without the mixed arms: a Num with a Float is no number pair
ApplyBinopUnmixed(func, x, y) ==
  IF x.t = "Num" /\ y.t = "Num" THEN NumOp(func, x.n, y.n)
  ELSE IF x.t = "Float" /\ y.t = "Float"
    THEN Ok(FloatOp(func, x.p, x.q, y.p, y.q))
  ELSE Err(NotANumber)

\* macro apply_binop: the new x, or the error that ends the call
ApplyBinop(func, x, y) ==
  IF x.t = "Num" /\ y.t = "Num" THEN NumOp(func, x.n, y.n)
  ELSE IF x.t = "Num" /\ y.t = "Float" THEN Ok(FloatOp(func, x.n, 1, y.p, y.q))
  ELSE IF x.t = "Float" /\ y.t = "Num" THEN Ok(FloatOp(func, x.p, x.q, y.n, 1))
  ELSE IF x.t = "Float" /\ y.t = "Float"
    THEN Ok(FloatOp(func, x.p, x.q, y.p, y.q))
  ELSE Err(NotANumber)

\* one turn of the while loop of builtin_iter_op: Cont(x) carries the new x into
\* the next turn, anything else is what the call returns
Cont(x) == [k |-> "Cont", v |-> x]

\* the arms of the match on func for an ordered pair: o is the Ordering of
\* x against y; each arm keeps x or y for the next turn, or returns
MinArm(o, x, y) ==
  IF o = "Less" THEN Cont(x)
  ELSE IF o = "Greater" THEN Cont(y)
  ELSE Ok(Bool(FALSE))

MaxArm(o, x, y) ==
  IF o = "Less" THEN Cont(y)
  ELSE IF o = "Greater" THEN Cont(x)
  ELSE Ok(Bool(FALSE))

\* a gt arm that keeps x, comparing every later argument against the first
GtArmKeepsFirst(o, x, y) == IF o = "Greater" THEN Cont(x) ELSE Ok(Bool(FALSE))

GtArm(o, x, y) == IF o = "Greater" THEN Cont(y) ELSE Ok(Bool(FALSE))

LtArm(o, x, y) == IF o = "Less" THEN Cont(x) ELSE Ok(Bool(FALSE))

GeArm(o, x, y) == IF o \in {"Greater", "Equal"} THEN Cont(y) ELSE Ok(Bool(FALSE))

LeArm(o, x, y) == IF o \in {"Less", "Equal"} THEN Cont(y) ELSE Ok(Bool(FALSE))

EqArm(o, x, y) == IF o = "Equal" THEN Cont(y) ELSE Ok(Bool(FALSE))

\* the comparison arms: x.partial_cmp(&y), None being an ArgumentMismatch
CmpArm(func, x, y) ==
  LET o == PartialCmp(x, y) IN
  IF o = "None" THEN Err(ArgumentMismatch)
  ELSE CASE func = "min" -> MinArm(o, x, y)
         [] func = "max" -> MaxArm(o, x, y)
         [] func = "gt" -> GtArm(o, x, y)
         [] func = "lt" -> LtArm(o, x, y)
         [] func = "ge" -> GeArm(o, x, y)
         [] func = "le" -> LeArm(o, x, y)
         [] func = "eq" -> EqArm(o, x, y)

\* the body of the while loop: the match on func
IterStep(func, x, y) ==
  IF func \in {"add", "sub", "mul", "div", "rem"} THEN
    LET r == ApplyBinop(func, x, y) IN IF IsOk(r) THEN Cont(r.v) ELSE r
  ELSE CmpArm(func, x, y)

RECURSIVE IterLoop(_, _, _, _)
IterLoop(func, x, v, child_count) ==
  IF child_count > 1 THEN
    LET y == ValPop(v, 0) IN
    IF ~IsOk(y) THEN y
    ELSE LET s == IterStep(func, x, y.v) IN
         IF s.k = "Cont" THEN IterLoop(func, s.v, y.rest, child_count - 1) ELSE s
  ELSE IF func \in {"gt", "lt", "ge", "le", "eq"} THEN Ok(Bool(TRUE))
  ELSE Ok(x)

\* builtin_iter_op
BuiltinIterOp(v, func) ==
  IF v.t # "List" THEN Ok(v)
  ELSE
    LET child_count == Len(v.cells)
        x == ValPop(v, 0)
    IN IF ~IsOk(x) THEN x
       ELSE IF func = "sub" /\ child_count = 1 THEN
         LET x_num == AsNum(x.v) IN
         IF IsOk(x_num) THEN Ok(Num(-x_num.v)) ELSE x_num
       ELSE IterLoop(func, x.v, x.rest, child_count)

----------------------------------------------------------------------------
(* eval.rs: the evaluator.  e is the environment of the call: e.data is    *)
(* Env::data and e.now the instant Local::now() reads during the call.     *)

\* val_peek(v, i): the i-th child (from 0), left in place
ValPeek(v, i) ==
  IF v.t \notin {"List", "Risp"} THEN Err(NoChildren)
  ELSE IF i < 0 \/ i >= Len(v.cells) THEN Panic("index out of bounds")
  ELSE Ok(v.cells[i + 1])

\* builtin_ne: the loop over the remaining arguments, values the set seen so far
RECURSIVE NeLoop(_, _, _)
NeLoop(values, a, child_count) ==
  IF child_count > 1 THEN
    LET y == ValPop(a, 0) IN
    IF ~IsOk(y) THEN y
    ELSE LET y_num == AsNum(y.v) IN
         IF ~IsOk(y_num) THEN y_num
         ELSE IF y_num.v \notin values
           THEN NeLoop(values \cup {y_num.v}, y.rest, child_count - 1)
         ELSE Ok(Bool(FALSE))
  ELSE Ok(Bool(TRUE))

BuiltinNe(a) ==
  IF a.t # "List" THEN Ok(a)
  ELSE
    LET child_count == Len(a.cells)
        x == ValPop(a, 0)
    IN IF ~IsOk(x) THEN x
       ELSE LET x_num == AsNum(x.v) IN
            IF ~IsOk(x_num) THEN x_num
            ELSE NeLoop({x_num.v}, x.rest, child_count)

\* builtin_now
BuiltinNow(e, a) ==
  IF a.t # "List" THEN Err(WrongType("list"))
  ELSE IF Len(a.cells) # 0 THEN Err(NumArguments(0, Len(a.cells)))
  ELSE Ok(DateTime(e.now))

RECURSIVE Eval(_, _), EvalCellsFrom(_, _, _, _), Call(_, _, _)
RECURSIVE BuiltinIf(_, _), BuiltinAnd(_, _), AndLoop(_, _, _)
RECURSIVE BuiltinOr(_, _), OrLoop(_, _, _, _), BuiltinNot(_, _)

\* eval_cells: the fold over cells[i..], acc the accumulator so far.  The
\* closure's ? hands an Err to the next turn as acc, whose Err arm is
\* unreachable!()
EvalCellsFrom(e, cells, i, acc) ==
  IF i > Len(cells) THEN acc
  ELSE IF IsPanic(acc) THEN acc
  ELSE IF IsErr(acc) THEN Panic("internal error: entered unreachable code")
  ELSE
    LET r == Eval(e, cells[i]) IN
    IF IsOk(r) THEN EvalCellsFrom(e, cells, i + 1, ValAdd(acc.v, r.v))
    ELSE EvalCellsFrom(e, cells, i + 1, r)

EvalCells(e, cells) == EvalCellsFrom(e, cells, 1, Ok(List(<<>>)))

\* builtin_if
BuiltinIf(e, a) ==
  IF a.t # "List" THEN Err(WrongType("list"))
  ELSE IF Len(a.cells) # 3 THEN Err(NumArguments(3, Len(a.cells)))
  ELSE
    LET c == ValPop(a, 0)
        b == IF c.v.t = "Bool" THEN Ok(c.v.b)
             ELSE IF c.v.t = "List" THEN
               LET r == EvalCells(e, c.v.cells) IN
               IF ~IsOk(r) THEN r
               ELSE IF r.v.t = "Bool" THEN Ok(r.v.b)
               ELSE Err(WrongType("bool"))
             ELSE Err(WrongType("bool"))
    IN IF ~IsOk(b) THEN b
       ELSE LET expr_to_eval == IF b.v THEN ValPop(c.rest, 0) ELSE ValPop(c.rest, 1)
            IN Eval(e, expr_to_eval.v)

\* an and loop for which Num(0) is false too
AndLoopZeroFalsy(e, v, arg_count) ==
  IF arg_count > 1 THEN
    LET a == ValPop(v, 0)
        res == Eval(e, a.v)
    IN IF ~IsOk(res) THEN res
       ELSE IF res.v = Bool(FALSE) \/ res.v = Num(0) THEN Ok(Bool(FALSE))
       ELSE AndLoop(e, a.rest, arg_count - 1)
  ELSE LET last_arg == ValPop(v, 0) IN Eval(e, last_arg.v)

\* builtin_and: the loop over all but the last argument, then the last one
AndLoop(e, v, arg_count) ==
  IF arg_count > 1 THEN
    LET a == ValPop(v, 0)
        res == Eval(e, a.v)
    IN IF ~IsOk(res) THEN res
       ELSE IF res.v.t = "Bool" /\ ~res.v.b THEN Ok(Bool(FALSE))
       ELSE AndLoop(e, a.rest, arg_count - 1)
  ELSE LET last_arg == ValPop(v, 0) IN Eval(e, last_arg.v)

\* a builtin_and content with a single argument
BuiltinAndAtLeastOne(e, v) ==
  IF v.t # "List" THEN Err(WrongType("list"))
  ELSE IF Len(v.cells) < 1 THEN Err(NumArguments(2, Len(v.cells)))
  ELSE AndLoop(e, v, Len(v.cells))

BuiltinAnd(e, v) ==
  IF v.t # "List" THEN Err(WrongType("list"))
  ELSE IF Len(v.cells) < 2 THEN Err(NumArguments(2, Len(v.cells)))
  ELSE AndLoop(e, v, Len(v.cells))

\* an or loop that evaluates and returns the last argument in every case
OrLoopLastDecides(e, v, arg_count, one_true) ==
  IF arg_count > 1 THEN
    LET a == ValPop(v, 0)
        res == Eval(e, a.v)
    IN IF ~IsOk(res) THEN res
       ELSE OrLoop(e, a.rest, arg_count - 1, TRUE)
  ELSE LET last_arg == ValPop(v, 0) IN Eval(e, last_arg.v)

\* builtin_or
OrLoop(e, v, arg_count, one_true) ==
  IF arg_count > 1 THEN
    LET a == ValPop(v, 0)
        res == Eval(e, a.v)
    IN IF ~IsOk(res) THEN res
       ELSE OrLoop(e, a.rest, arg_count - 1,
                   IF res.v.t = "Bool" THEN (res.v.b \/ one_true) ELSE TRUE)
  ELSE IF one_true THEN LET last_arg == ValPop(v, 0) IN Eval(e, last_arg.v)
  ELSE Ok(Bool(FALSE))

BuiltinOr(e, v) ==
  IF v.t # "List" THEN Err(WrongType("list"))
  ELSE IF Len(v.cells) < 2 THEN Err(NumArguments(2, Len(v.cells)))
  ELSE OrLoop(e, v, Len(v.cells), FALSE)

\* builtin_not
BuiltinNot(e, v) ==
  IF v.t # "List" THEN Err(WrongType("list"))
  ELSE IF Len(v.cells) # 1 THEN Err(NumArguments(1, Len(v.cells)))
  ELSE
    LET a == ValPop(v, 0)
        res == Eval(e, a.v)
    IN IF ~IsOk(res) THEN res
       ELSE IF res.v.t = "Bool" THEN Ok(Bool(~res.v.b))
       ELSE Ok(Bool(FALSE))

\* call: the function pointer of a Fun applied to the evaluated arguments
Call(e, f, args) ==
  IF f.t = "Fun" THEN
    CASE f.fp \in FoldBuiltins -> BuiltinIterOp(args, f.fp)
      [] f.fp = "ne" -> BuiltinNe(args)
      [] f.fp = "if" -> BuiltinIf(e, args)
      [] f.fp = "now" -> BuiltinNow(e, args)
      [] f.fp = "and" -> BuiltinAnd(e, args)
      [] f.fp = "or" -> BuiltinOr(e, args)
      [] f.fp = "not" -> BuiltinNot(e, args)
  ELSE Err(WrongType("Function"))

\* an eval that hands back the only child of a wrapping list as it stands
EvalKeepsChild(e, v) ==
  CASE v.t = "Risp" ->
         LET args_eval == EvalCells(e, v.cells) IN
         IF ~IsOk(args_eval) THEN args_eval
         ELSE LET forms_len == Len(args_eval.v.cells)
                  r == ValPop(args_eval.v, forms_len - 1)
              IN IF IsOk(r) THEN Ok(r.v) ELSE r
    [] v.t = "Sym" -> EnvGet(e.data, v.s)
    [] v.t = "List" ->
         LET child_count == Len(v.cells)
             args_eval == EvalCells(e, v.cells)
         IN IF ~IsOk(args_eval) THEN args_eval
            ELSE IF child_count = 0 THEN Ok(v)
            ELSE LET first == ValPeek(args_eval.v, 0) IN
                 IF first.v.t = "Fun" THEN
                   LET fp == ValPop(args_eval.v, 0) IN Call(e, fp.v, fp.rest)
                 ELSE LET c == ValPop(v, 0) IN Ok(c.v)
    [] OTHER -> Ok(v)

\* eval
Eval(e, v) ==
  CASE v.t = "Risp" ->
         LET args_eval == EvalCells(e, v.cells) IN
         IF ~IsOk(args_eval) THEN args_eval
         ELSE LET forms_len == Len(args_eval.v.cells)
                  r == ValPop(args_eval.v, forms_len - 1)
              IN IF IsOk(r) THEN Ok(r.v) ELSE r
    [] v.t = "Sym" -> EnvGet(e.data, v.s)
    [] v.t = "List" ->
         LET child_count == Len(v.cells)
             args_eval == EvalCells(e, v.cells)
         IN IF ~IsOk(args_eval) THEN args_eval
            ELSE IF child_count = 0 THEN Ok(v)
            ELSE LET first == ValPeek(args_eval.v, 0) IN
                 IF first.v.t = "Fun" THEN
                   LET fp == ValPop(args_eval.v, 0) IN Call(e, fp.v, fp.rest)
                 ELSE LET c == ValPop(v, 0) IN Eval(e, c.v)
    [] OTHER -> Ok(v)

\* the bindings after eval(e, v): eval reaches the environment through
\* e.get alone, once for every Sym it evaluates; the builtins hand e on to
\* eval and do nothing else with it
RECURSIVE EnvAfterEval(_, _), EnvAfterCells(_, _, _)
EnvAfterEval(data, v) ==
  CASE v.t = "Sym" -> EnvAfterGet(data, v.s)
    [] v.t \in {"List", "Risp"} -> EnvAfterCells(data, v.cells, 1)
    [] OTHER -> data

EnvAfterCells(data, cells, i) ==
  IF i > Len(cells) THEN data
  ELSE EnvAfterCells(EnvAfterEval(data, cells[i]), cells, i + 1)

\* a tree after eval that pops the last form off the caller's Risp as well
TreeAfterEvalPopsForms(e, v) ==
  IF v.t = "Risp" /\ Len(v.cells) >= 1 /\ IsOk(EvalCells(e, v.cells))
  THEN [v EXCEPT !.cells = RemoveAt(v.cells, Len(v.cells))]
  ELSE IF /\ v.t = "List"
          /\ Len(v.cells) >= 1
          /\ IsOk(EvalCells(e, v.cells))
          /\ EvalCells(e, v.cells).v.cells[1].t # "Fun"
  THEN ValPop(v, 0).rest
  ELSE v

\* the caller's tree after eval(e, &mut v): eval_cells evaluates clones of
\* the children and the builtins pop from the evaluated list, so the one
\* change is the val_pop(v, 0) of a List whose first child is no function
TreeAfterEval(e, v) ==
  IF /\ v.t = "List"
     /\ Len(v.cells) >= 1
     /\ IsOk(EvalCells(e, v.cells))
     /\ EvalCells(e, v.cells).v.cells[1].t # "Fun"
  THEN ValPop(v, 0).rest
  ELSE v

----------------------------------------------------------------------------
(* The inputs of the model: bindings a host puts, and trees it evaluates *)

\* all sequences over S of length 0..n
RECURSIVE SeqsUpTo(_, _)
SeqsUpTo(S, n) ==
  IF n = 0 THEN {<<>>}
  ELSE LET shorter == SeqsUpTo(S, n - 1)
       IN shorter \cup {Append(s, x) : s \in {t \in shorter : Len(t) = n - 1}, x \in S}

PutNames == {"a", "b"}

PutVals == {Time(1), Time(2), Date(1), Date(2), DateTime(1), DateTime(2)}

\* numeric literals
NumAtoms == {Num(0), Num(1), Num(2), Float(2, 1), Float(3, 2)}

\* the arguments of a generated call: the numeric literals and the constant true
ArgAtoms == NumAtoms \cup {Sym("true")}

FoldNames == FoldBuiltins \cup {"ne"}

Aliases == {"+", "-", "*", "/", "%", ">", "<", ">=", "<=", "==", "!="}

\* (f a1 .. an) for a fold builtin f
FoldCalls ==
  {List(<<Sym(f)>> \o args) : f \in FoldNames, args \in SeqsUpTo(ArgAtoms, MaxArgs)}

\* (f x y) for an alias f
AliasCalls ==
  {List(<<Sym(f), x, y>>) : f \in Aliases, x \in {Num(1), Float(2, 1)}, y \in NumAtoms}

\* calls with children that fail: u and w are names no host ever binds
FailItems == {Num(2), Sym("u"), Sym("w")}

FailCalls ==
  {List(<<Sym(f)>> \o args) : f \in {"add", "gt"}, args \in SeqsUpTo(FailItems, MaxArgs)}

\* (f a b) and (f b a) over the names a host binds
SymCalls ==
  {List(<<Sym(f), Sym(x), Sym(y)>>) :
     f \in {"gt", "lt", "ge", "le", "min", "max", "eq", ">", "<"},
     x \in PutNames, y \in PutNames}

Conds ==
  {Sym("true"), Sym("false"), Num(1), Sym("u"),
   List(<<Sym("gt"), Num(1), Num(0)>>), List(<<Sym("gt"), Num(0), Num(1)>>)}

Branches == {Num(1), Num(2), Sym("u"), List(<<Sym("add"), Num(1), Num(1)>>)}

\* (if c t e)
IfCalls == {List(<<Sym("if"), c, t, e>>) : c \in Conds, t \in Branches, e \in Branches}

\* lists whose first child is not a function
PlainItems == {Num(1), Num(2), Sym("u"), Sym("w"), Sym("nil"), List(<<Num(2)>>)}

PlainLists == {List(cells) : cells \in SeqsUpTo(PlainItems, MaxArgs)}

\* top-level programs
Forms == {Num(1), Num(2), Sym("u"), Sym("w"), List(<<Sym("add"), Num(1), Num(2)>>)}

Programs == {Risp(forms) : forms \in SeqsUpTo(Forms, MaxForms)}

\* the arguments of a generated and / or call: falsy and truthy values, a
\* wrapped number, and a name no host ever binds
BoolItems ==
  {Sym("false"), Sym("nil"), Sym("true"), Num(0), List(<<Num(2)>>), Sym("u")}

\* (and a1 .. an) and (or a1 .. an)
BoolCalls ==
  {List(<<Sym(f)>> \o args) : f \in {"and", "or"}, args \in SeqsUpTo(BoolItems, MaxArgs)}

\* (if ..), (now ..) and (not ..) with every number of arguments up to one
\* more than MaxArgs
ArityCalls ==
  {List(<<Sym(f)>> \o args) :
     f \in {"if", "now", "not"}, args \in SeqsUpTo({Sym("true"), Num(1)}, MaxArgs + 1)}

Trees ==
  FoldCalls \cup AliasCalls \cup FailCalls \cup SymCalls \cup IfCalls \cup PlainLists
    \cup Programs \cup BoolCalls \cup ArityCalls

----------------------------------------------------------------------------
(* The state machine: a host session that puts bindings and evaluates trees *)

NoTree == [t |-> "none"]

NoResult == [k |-> "none"]

\* no put so far
NoPuts == [name \in {} |-> NoTree]

\* no round trip under way
TripIdle == atom = NoTree /\ text = <<>>

\* the driver has made no call
RtdIdle == i2c = <<>> /\ buffer = <<>> /\ answer = NoResult

\* Env::new(None)
Init ==
  /\ env = EnvNew
  /\ expr = NoTree
  /\ result = NoResult
  /\ op = "idle"
  /\ tree = NoTree
  /\ puts = NoPuts
  /\ TripIdle
  /\ RtdIdle

\* env.put(name, val), between two evaluations
Put ==
  /\ op = "idle"
  /\ \E name \in PutNames, val \in PutVals :
       /\ env' = EnvPut(env, name, val)
       /\ puts' = (name :> val) @@ puts
  /\ UNCHANGED <<expr, result, op, tree, tripVars, rtdVars>>

\* eval(&mut env, &mut v) on a tree the host hands over
DoEval ==
  /\ op = "idle"
  /\ \E v \in Trees :
       /\ expr' = v
       /\ result' = Eval([data |-> env, now |-> 0], v)
       /\ tree' = TreeAfterEval([data |-> env, now |-> 0], v)
       /\ env' = EnvAfterEval(env, v)
  /\ op' = "eval"
  /\ UNCHANGED <<puts, tripVars, rtdVars>>

\* the host takes the result and drops the tree
Take ==
  /\ op = "eval"
  /\ expr' = NoTree
  /\ result' = NoResult
  /\ tree' = NoTree
  /\ op' = "idle"
  /\ UNCHANGED <<env, puts, tripVars, rtdVars>>

Next == Put \/ DoEval \/ Take

Spec == Init /\ [][Next]_vars

----------------------------------------------------------------------------
(* val.rs, parse.rs: rendering an atom and reading it back.  A text is a   *)
(* sequence of characters.                                                 *)

Digits == <<"0", "1", "2", "3", "4", "5", "6", "7", "8", "9">>

IsDigit(c) == \E d \in 1..10 : Digits[d] = c

DigitVal(c) == (CHOOSE d \in 1..10 : Digits[d] = c) - 1

Letters ==
  {"a", "b", "c", "d", "e", "f", "g", "h", "i", "j", "k", "l", "m",
   "n", "o", "p", "q", "r", "s", "t", "u", "v", "w", "x", "y", "z"}

\* the decimal digits of n >= 0
RECURSIVE DigitsOf(_)
DigitsOf(n) ==
  IF n < 10 THEN <<Digits[n + 1]>>
  ELSE Append(DigitsOf(n \div 10), Digits[(n % 10) + 1])

\* the decimal digits of the fraction r/q, 0 <= r < q, which is finite
RECURSIVE FracDigits(_, _)
FracDigits(r, q) ==
  IF r = 0 THEN <<>>
  ELSE <<Digits[((r * 10) \div q) + 1]>> \o FracDigits((r * 10) % q, q)

\* Display of an i64
RenderNum(n) == IF n < 0 THEN <<"-">> \o DigitsOf(-n) ELSE DigitsOf(n)

\* Display of the f64 p/q: the shortest decimal that reads back as the same
\* f64, with no fraction part when the value is integral
RenderFloat(p, q) ==
  IF q = 0 THEN
    IF p > 0 THEN <<"i", "n", "f">>
    ELSE IF p < 0 THEN <<"-", "i", "n", "f">>
    ELSE <<"N", "a", "N">>
  ELSE (IF p < 0 THEN <<"-">> ELSE <<>>)
       \o DigitsOf(Abs(p) \div q)
       \o (IF Abs(p) % q = 0 THEN <<>> ELSE <<".">> \o FracDigits(Abs(p) % q, q))

TwoDigits(n) == <<Digits[(n \div 10) + 1], Digits[(n % 10) + 1]>>

\* Display of a NaiveTime of whole seconds: %H:%M:%S
RenderTime(s) ==
  TwoDigits(s \div 3600) \o <<":">> \o TwoDigits((s \div 60) % 60)
    \o <<":">> \o TwoDigits(s % 60)

\* impl fmt::Display for Val, on the atoms Bool, Float, Num and Time
Display(v) ==
  CASE v.t = "Bool" ->
         IF v.b THEN <<"t", "r", "u", "e">> ELSE <<"f", "a", "l", "s", "e">>
    [] v.t = "Float" -> RenderFloat(v.p, v.q)
    [] v.t = "Num" -> RenderNum(v.n)
    [] v.t = "Time" -> RenderTime(v.at)

ParseError == [e |-> "ParseError"]

AllDigits(s) == Len(s) >= 1 /\ \A i \in 1..Len(s) : IsDigit(s[i])

\* the value of a sequence of digits
RECURSIVE ValueOf(_)
ValueOf(s) ==
  IF s = <<>> THEN 0
  ELSE ValueOf(SubSeq(s, 1, Len(s) - 1)) * 10 + DigitVal(s[Len(s)])

RECURSIVE Pow10(_)
Pow10(k) == IF k = 0 THEN 1 ELSE 10 * Pow10(k - 1)

\* a text without its sign
Unsigned(s) == IF Len(s) >= 1 /\ s[1] \in {"-", "+"} THEN Tail(s) ELSE s

Negative(s) == Len(s) >= 1 /\ s[1] = "-"

\* str::parse::<i64>: an optional sign and one or more digits
ParseI64(s) ==
  IF AllDigits(Unsigned(s))
  THEN Ok(IF Negative(s) THEN -ValueOf(Unsigned(s)) ELSE ValueOf(Unsigned(s)))
  ELSE Err(ParseError)

\* where the decimal point of a text is, or 0
PointAt(s) == IF \E i \in 1..Len(s) : s[i] = "." THEN CHOOSE i \in 1..Len(s) : s[i] = "." ELSE 0

\* str::parse::<f64> on decimal texts: an optional sign, digits with at most
\* one point among them, and one digit at least
ParseF64(s) ==
  LET u == Unsigned(s)
      dot == PointAt(u)
      whole == IF dot = 0 THEN u ELSE SubSeq(u, 1, dot - 1)
      frac == IF dot = 0 THEN <<>> ELSE SubSeq(u, dot + 1, Len(u))
      digits == whole \o frac
  IN IF AllDigits(digits)
     THEN LET m == ValueOf(digits)
          IN Ok(Float(IF Negative(s) THEN -m ELSE m, Pow10(Len(frac))))
     ELSE Err(ParseError)

\* NaiveTime::parse_from_str(s, "%H:%M:%S") on a text HH:MM:SS
ParseTime(s) ==
  LET h == ValueOf(SubSeq(s, 1, 2))
      m == ValueOf(SubSeq(s, 4, 5))
      sec == ValueOf(SubSeq(s, 7, 8))
  IN IF h <= 23 /\ m <= 59 /\ sec <= 60 THEN Ok(Time(h * 3600 + m * 60 + sec))
     ELSE Err(ParseError)

\* the rule number of the grammar: an optional -, digits, and optionally a
\* point and digits
IsNumberToken(s) ==
  LET u == IF Negative(s) THEN Tail(s) ELSE s
      dot == PointAt(u)
  IN IF dot = 0 THEN AllDigits(u)
     ELSE AllDigits(SubSeq(u, 1, dot - 1)) /\ AllDigits(SubSeq(u, dot + 1, Len(u)))

\* the rule time of the grammar: HH:MM:SS
IsTimeToken(s) ==
  /\ Len(s) = 8
  /\ s[3] = ":" /\ s[6] = ":"
  /\ \A i \in {1, 2, 4, 5, 7, 8} : IsDigit(s[i])

\* the rule symbol of the grammar, identifiers only: a letter, then letters
\* and digits
IsSymbolToken(s) ==
  /\ Len(s) >= 1
  /\ s[1] \in Letters
  /\ \A i \in 2..Len(s) : s[i] \in Letters \/ IsDigit(s[i])

\* the string of a text
RECURSIVE Join(_)
Join(s) == IF s = <<>> THEN "" ELSE s[1] \o Join(Tail(s))

\* val_read on the pair of a num
ReadNum(s) ==
  LET s_int == ParseI64(s)
      s_f64 == ParseF64(s)
  IN IF IsOk(s_int) THEN Ok(Num(s_int.v))
     ELSE IF IsOk(s_f64) THEN s_f64
     ELSE Err(NotANumber)

\* parse, on a source of one token: Risp of the one form
Parse(s) ==
  LET form == IF IsNumberToken(s) THEN ReadNum(s)
              ELSE IF IsTimeToken(s) THEN ParseTime(s)
              ELSE IF IsSymbolToken(s) THEN Ok(Sym(Join(s)))
              ELSE Err(ParseError)
  IN IF IsOk(form) THEN Ok(Risp(<<form.v>>)) ELSE form

\* the seconds of the clock times rendered
ClockSeconds == {0, 59, 60, 3599, 3600, 36000, 45296, 86399}

\* the literals a round trip starts from: integers, floats whose value is
\* integral or has a finite binary fraction, booleans and clock times
Literals ==
  {Num(n) : n \in -MaxLit..MaxLit}
    \cup {Float(p, q) : p \in -MaxLit..MaxLit, q \in {1, 2, 4}}
    \cup {Bool(TRUE), Bool(FALSE)}
    \cup {Time(s) : s \in ClockSeconds}

\* a fresh environment and a literal
TripInit ==
  /\ env = EnvNew
  /\ expr = NoTree
  /\ result = NoResult
  /\ op = "idle"
  /\ tree = NoTree
  /\ puts = NoPuts
  /\ atom \in Literals
  /\ text = <<>>
  /\ RtdIdle

\* format!("{}", atom)
Render ==
  /\ op = "idle"
  /\ text' = Display(atom)
  /\ op' = "render"
  /\ UNCHANGED <<env, expr, result, tree, puts, atom, rtdVars>>

\* parse(&text)
ParseText ==
  /\ op = "render"
  /\ LET parsed == Parse(text)
     IN /\ expr' = (IF IsOk(parsed) THEN parsed.v ELSE NoTree)
        /\ result' = (IF IsOk(parsed) THEN NoResult ELSE parsed)
  /\ op' = "parse"
  /\ UNCHANGED <<env, tree, puts, atom, text, rtdVars>>

\* eval(&mut env, &mut parsed)
EvalParsed ==
  /\ op = "parse"
  /\ expr # NoTree
  /\ result' = Eval([data |-> env, now |-> 0], expr)
  /\ tree' = TreeAfterEval([data |-> env, now |-> 0], expr)
  /\ env' = EnvAfterEval(env, expr)
  /\ op' = "eval"
  /\ UNCHANGED <<expr, puts, atom, text, rtdVars>>

TripNext == Render \/ ParseText \/ EvalParsed

TripSpec == TripInit /\ [][TripNext]_vars

----------------------------------------------------------------------------
(* The environment on its own: a host that puts, gets and looks names up.  *)
(* It puts over names Env::new installed as well as over fresh ones.       *)

EnvNames == {"a", "b", "true", "add"}

EnvVals == {Num(1), Num(2), Float(3, 2), Bool(FALSE), Time(1)}

\* the names a host asks for: u is never bound
AskNames == EnvNames \cup {"u", "nil", "+"}

\* env.put(name, val)
EnvPutCall ==
  /\ \E name \in EnvNames, val \in EnvVals :
       /\ env' = EnvPut(env, name, val)
       /\ puts' = (name :> val) @@ puts
  /\ expr' = NoTree
  /\ result' = NoResult
  /\ op' = "put"
  /\ UNCHANGED <<tree, tripVars, rtdVars>>

\* env.get(name)
EnvGetCall ==
  /\ \E name \in AskNames :
       /\ expr' = Sym(name)
       /\ result' = EnvGet(env, name)
       /\ env' = EnvAfterGet(env, name)
  /\ op' = "get"
  /\ UNCHANGED <<tree, puts, tripVars, rtdVars>>

\* eval(&mut env, &mut Sym(name))
EnvEvalSym ==
  /\ \E name \in AskNames :
       /\ expr' = Sym(name)
       /\ result' = Eval([data |-> env, now |-> 0], Sym(name))
       /\ env' = EnvAfterEval(env, Sym(name))
  /\ op' = "eval"
  /\ UNCHANGED <<tree, puts, tripVars, rtdVars>>

EnvNext == EnvPutCall \/ EnvGetCall \/ EnvEvalSym

EnvSpec == Init /\ [][EnvNext]_vars

----------------------------------------------------------------------------
(* A rule set parsed once and evaluated run after run, the host refreshing *)
(* its inputs between the runs.  expr keeps the program as it was parsed,  *)
(* tree is the caller's tree that every run hands to eval.                 *)

RerunVals == {Num(1), Num(2)}

\* the forms of a rule set over the inputs a and b
RerunForms ==
  {Num(1), Sym("a"), List(<<Sym("a")>>),
   List(<<Sym("add"), Sym("a"), Sym("b")>>),
   List(<<Sym("gt"), Sym("a"), Sym("b")>>)}

RerunPrograms == {Risp(forms) : forms \in SeqsUpTo(RerunForms, MaxForms) \ {<<>>}}

RerunInit ==
  /\ env = EnvNew
  /\ expr \in RerunPrograms
  /\ tree = expr
  /\ result = NoResult
  /\ op = "idle"
  /\ puts = NoPuts
  /\ TripIdle
  /\ RtdIdle

\* env.put(name, val) before the first run or between two runs
RerunPut ==
  /\ \E name \in PutNames, val \in RerunVals :
       /\ env' = EnvPut(env, name, val)
       /\ puts' = (name :> val) @@ puts
  /\ op' = (IF op = "idle" THEN "idle" ELSE "refreshed")
  /\ UNCHANGED <<expr, result, tree, tripVars, rtdVars>>

\* eval(&mut env, &mut tree): the first run, or one more
RerunEval ==
  /\ result' = Eval([data |-> env, now |-> 0], tree)
  /\ tree' = TreeAfterEval([data |-> env, now |-> 0], tree)
  /\ env' = EnvAfterEval(env, tree)
  /\ op' = (IF op = "idle" THEN "run" ELSE "rerun")
  /\ UNCHANGED <<expr, puts, tripVars, rtdVars>>

RerunNext == RerunPut \/ RerunEval

RerunSpec == RerunInit /\ [][RerunNext]_vars

----------------------------------------------------------------------------
(* io/ezortd.rs: the driver of the temperature sensor.  The bus answers    *)
(* each write and read with success or failure, and a read with bytes.     *)

Unit == [t |-> "unit"]

ErrorI2c == Err("I2c")

ErrorNotReady == Err("NotReady")

ErrorSyntaxError == Err("SyntaxError")

ErrorParseError == Err("ParseError")

\* the response codes and the data bytes the bus delivers: NUL, '.', '1'
\* and a byte that is no UTF-8
CodeBytes == {0, 1, 2, 3, 254, 255}

DataBytes == {0, 46, 49, 255}

RECURSIVE SeqsOfLen(_, _)
SeqsOfLen(S, n) ==
  IF n = 0 THEN {<<>>} ELSE {Append(s, x) : s \in SeqsOfLen(S, n - 1), x \in S}

\* what a bus read can deliver into the buffer
Responses == {<<c>> \o d : c \in CodeBytes, d \in SeqsOfLen(DataBytes, RtdBufLen - 1)}

\* let mut buffer = [0u8; 14]
ZeroBuffer == [i \in 1..RtdBufLen |-> 0]

WriteTransaction(command, ok) == [op |-> "write", bytes |-> command, ok |-> ok]

ReadTransaction(rx, ok) == [op |-> "read", bytes |-> rx, ok |-> ok]

\* send_command: the outcome of i2c.write
SendCommand(write_ok) == IF write_ok THEN Ok(Unit) ELSE ErrorI2c

\* a validate_response_code that knows success and failure only
ValidateResponseCodeCoarse(buf) ==
  IF buf[1] = 1 THEN Ok(Unit) ELSE ErrorParseError

\* validate_response_code
ValidateResponseCode(buf) ==
  CASE buf[1] = 254 -> ErrorNotReady
    [] buf[1] = 2 -> ErrorSyntaxError
    [] buf[1] = 1 -> Ok(Unit)
    [] OTHER -> ErrorParseError

\* read_response: the result, and the buffer after the call
ReadResponse(read_ok, rx, buf) ==
  IF ~read_ok THEN [res |-> ErrorI2c, buf |-> buf]
  ELSE [res |-> ValidateResponseCode(rx), buf |-> rx]

\* the character of an ASCII byte of the model
AsciiChar(b) ==
  IF b \in 48..57 THEN Digits[b - 47] ELSE IF b = 46 THEN "." ELSE "?"

\* extract_string: the bytes after the code up to the first NUL, as UTF-8
\* (of the bytes of the model the ASCII ones are valid, 255 is not)
ExtractString(buf) ==
  LET end == IF \E i \in 1..Len(buf) : buf[i] = 0
             THEN (CHOOSE i \in 1..Len(buf) :
                     buf[i] = 0 /\ \A j \in 1..(i - 1) : buf[j] # 0) - 1
             ELSE Len(buf)
  IN IF end < 1 THEN Panic("slice index starts at 1 but ends at 0")
     ELSE LET bytes == SubSeq(buf, 2, end)
          IN IF \A i \in 1..Len(bytes) : bytes[i] < 128
             THEN Ok([i \in 1..Len(bytes) |-> AsciiChar(bytes[i])])
             ELSE ErrorParseError

\* what the caller does with the string: parse::<f64> in read, nothing in
\* information and status
FromString(command, s) ==
  IF command = "R"
  THEN LET temperature == ParseF64(s) IN
       IF IsOk(temperature) THEN temperature ELSE ErrorParseError
  ELSE Ok(s)

\* the body information, read and status share: send the command, read the
\* response, extract the string; the transactions issued, the buffer and the
\* value returned
Transact(command, write_ok, read_ok, rx) ==
  LET sent == SendCommand(write_ok)
      resp == ReadResponse(read_ok, rx, ZeroBuffer)
      str == ExtractString(resp.buf)
  IN IF ~IsOk(sent)
     THEN [i2c |-> <<WriteTransaction(command, FALSE)>>,
           buffer |-> <<>>,
           answer |-> sent]
     ELSE [i2c |-> <<WriteTransaction(command, TRUE), ReadTransaction(rx, read_ok)>>,
           buffer |-> resp.buf,
           answer |-> IF ~IsOk(resp.res) THEN resp.res
                      ELSE IF ~IsOk(str) THEN str
                      ELSE FromString(command, str.v)]

\* information()
RtdInformation ==
  /\ answer = NoResult
  /\ \E write_ok \in BOOLEAN, read_ok \in BOOLEAN, rx \in Responses :
       LET call == Transact("i", write_ok, read_ok, rx)
       IN i2c' = call.i2c /\ buffer' = call.buffer /\ answer' = call.answer
  /\ UNCHANGED <<env, expr, result, op, tree, puts, tripVars>>

\* read()
RtdRead ==
  /\ answer = NoResult
  /\ \E write_ok \in BOOLEAN, read_ok \in BOOLEAN, rx \in Responses :
       LET call == Transact("R", write_ok, read_ok, rx)
       IN i2c' = call.i2c /\ buffer' = call.buffer /\ answer' = call.answer
  /\ UNCHANGED <<env, expr, result, op, tree, puts, tripVars>>

\* status()
RtdStatus ==
  /\ answer = NoResult
  /\ \E write_ok \in BOOLEAN, read_ok \in BOOLEAN, rx \in Responses :
       LET call == Transact("Status", write_ok, read_ok, rx)
       IN i2c' = call.i2c /\ buffer' = call.buffer /\ answer' = call.answer
  /\ UNCHANGED <<env, expr, result, op, tree, puts, tripVars>>

\* read_response called on its own, on a buffer of the caller
RtdReadResponse ==
  /\ answer = NoResult
  /\ \E read_ok \in BOOLEAN, rx \in Responses :
       LET resp == ReadResponse(read_ok, rx, ZeroBuffer)
       IN /\ i2c' = <<ReadTransaction(rx, read_ok)>>
          /\ buffer' = resp.buf
          /\ answer' = resp.res
  /\ UNCHANGED <<env, expr, result, op, tree, puts, tripVars>>

\* the caller takes the answer; the next call starts on a fresh buffer
RtdTake ==
  /\ answer # NoResult
  /\ i2c' = <<>>
  /\ buffer' = <<>>
  /\ answer' = NoResult
  /\ UNCHANGED <<env, expr, result, op, tree, puts, tripVars>>

RtdNext == RtdInformation \/ RtdRead \/ RtdStatus \/ RtdReadResponse \/ RtdTake

RtdSpec == Init /\ [][RtdNext]_vars

----------------------------------------------------------------------------
(* Vocabulary of the properties *)

\* the environment the evaluation of the current round ran in
Here == [data |-> env, now |-> 0]

Evaluated == op = "eval"

\* what evaluating the i-th child of the current tree on its own gives
Child(i) == Eval(Here, expr.cells[i])

NChildren == Len(expr.cells)

AllChildrenOk == \A i \in 1..NChildren : IsOk(Child(i))

\* the position of the leftmost child whose evaluation does not succeed
FirstFailing == CHOOSE i \in 1..NChildren :
                  /\ ~IsOk(Child(i))
                  /\ \A j \in 1..(i - 1) : IsOk(Child(j))

\* the current tree is a call (s a1 .. an): s names a builtin in the environment
IsCall == /\ Evaluated
          /\ expr.t = "List"
          /\ NChildren >= 1
          /\ expr.cells[1].t = "Sym"
          /\ expr.cells[1].s \in DOMAIN env
          /\ env[expr.cells[1].s].t = "Fun"

\* the builtin a call invokes
Callee == env[expr.cells[1].s].fp

NArgs == NChildren - 1

\* the value of the i-th argument of a call
Arg(i) == Child(i + 1).v

IsNumber(v) == v.t = "Num" \/ (v.t = "Float" /\ v.q # 0)

AllArgsNumbers == \A i \in 1..NArgs : IsOk(Child(i + 1)) /\ IsNumber(Arg(i))

\* the numeric value of a number as a fraction
Numer(v) == IF v.t = "Num" THEN v.n ELSE v.p

Denom(v) == IF v.t = "Num" THEN 1 ELSE v.q

NumLess(x, y) == Numer(x) * Denom(y) < Numer(y) * Denom(x)

NumEqual(x, y) == Numer(x) * Denom(y) = Numer(y) * Denom(x)

----------------------------------------------------------------------------
(* C1..C4: the evaluator *)

\* C1: whenever evaluating a child of a List or a form of a Risp yields an
\* error, eval returns exactly that leftmost error as an Err, whatever the
\* position of the failing child, and never aborts instead.
C1_LeftmostErrorReturned ==
  (/\ Evaluated
   /\ expr.t \in {"List", "Risp"}
   /\ ~AllChildrenOk
   /\ IsErr(Child(FirstFailing)))
  => result = Child(FirstFailing)

\* C2: in (if COND THEN ELSE) with COND evaluating to a Bool only the chosen
\* branch is evaluated, so the call gives what the chosen branch gives, even
\* when the other branch would fail.
C2_OnlyChosenBranch ==
  (/\ IsCall
   /\ Callee = "if"
   /\ NArgs = 3
   /\ IsOk(Child(2))
   /\ Arg(1).t = "Bool")
  => result = (IF Arg(1).b THEN Child(3) ELSE Child(4))

\* C3: a List of two or more children whose first child evaluates to a value
\* that is not a Fun fails with WrongType and never returns a value.
C3_NonFunHeadIsWrongType ==
  (/\ Evaluated
   /\ expr.t = "List"
   /\ NChildren >= 2
   /\ AllChildrenOk
   /\ Child(1).v.t # "Fun")
  => (IsErr(result) /\ result.e.e = "WrongType")

\* C4: a Risp of one or more forms gives the value of its last form when no
\* form fails, and the error of the failing form otherwise.
C4_ProgramValue ==
  (/\ Evaluated
   /\ expr.t = "Risp"
   /\ NChildren >= 1)
  => IF AllChildrenOk THEN result = Child(NChildren)
     ELSE IsErr(Child(FirstFailing)) => result = Child(FirstFailing)

----------------------------------------------------------------------------
(* C5..C10: the fold builtins *)

\* the relation a comparison builtin names, on two numbers
RelHolds(f, x, y) ==
  CASE f = "gt" -> NumLess(y, x)
    [] f = "lt" -> NumLess(x, y)
    [] f = "ge" -> ~NumLess(x, y)
    [] f = "le" -> ~NumLess(y, x)
    [] f = "eq" -> NumEqual(x, y)

EveryAdjacentPair(f) == \A i \in 1..(NArgs - 1) : RelHolds(f, Arg(i), Arg(i + 1))

\* C5: on two or more numbers gt, ge, le and eq (and their aliases) give
\* Bool(true) iff every adjacent pair satisfies the relation, Num and Float
\* compared by numeric value, and Bool(false) otherwise.
C5_AdjacentPairs ==
  (/\ IsCall
   /\ Callee \in {"gt", "ge", "le", "eq"}
   /\ NArgs >= 2
   /\ AllArgsNumbers)
  => result = Ok(Bool(EveryAdjacentPair(Callee)))

\* a chain of three mixed Num and Float arguments, each pair of which
\* satisfies >=
C5_Witness ==
  /\ Evaluated
  /\ expr = List(<<Sym("ge"), Float(2, 1), Num(2), Float(3, 2)>>)
  /\ result = Ok(Bool(TRUE))

\* C6: on two or more numbers lt gives Bool(true) iff every adjacent pair is
\* strictly increasing, and Bool(false) otherwise.
C6_LtAdjacentPairs ==
  (/\ IsCall
   /\ Callee = "lt"
   /\ NArgs >= 2
   /\ AllArgsNumbers)
  => result = Ok(Bool(EveryAdjacentPair("lt")))

IsTemporal(v) == v.t \in {"Time", "Date", "DateTime"}

\* what clock or calendar order gives for a builtin on two instants
TemporalAnswer(f, x, y) ==
  CASE f = "gt" -> Bool(x.at > y.at)
    [] f = "lt" -> Bool(x.at < y.at)
    [] f = "ge" -> Bool(x.at >= y.at)
    [] f = "le" -> Bool(x.at <= y.at)
    [] f = "min" -> IF x.at <= y.at THEN x ELSE y
    [] f = "max" -> IF x.at >= y.at THEN x ELSE y

\* C7: on two values of the same temporal variant bound in the environment
\* gt, lt, ge, le give the Bool of clock or calendar order and min, max the
\* earlier or later value; they do not fail.
C7_TemporalOrder ==
  (/\ IsCall
   /\ Callee \in {"gt", "lt", "ge", "le", "min", "max"}
   /\ NArgs = 2
   /\ AllChildrenOk
   /\ IsTemporal(Arg(1))
   /\ Arg(2).t = Arg(1).t)
  => result = Ok(TemporalAnswer(Callee, Arg(1), Arg(2)))

\* C8: on two or more numbers min gives one of the arguments that is less than
\* or equal to all the others and max one that is greater than or equal to all
\* the others, variant and value unchanged, never a Bool.
C8_MinMaxPicksArgument ==
  (/\ IsCall
   /\ Callee \in {"min", "max"}
   /\ NArgs >= 2
   /\ AllArgsNumbers)
  => /\ IsOk(result)
     /\ \E i \in 1..NArgs :
          /\ result.v = Arg(i)
          /\ \A j \in 1..NArgs :
               IF Callee = "min" THEN ~NumLess(Arg(j), Arg(i))
               ELSE ~NumLess(Arg(i), Arg(j))

IsNumeric(v) == v.t \in {"Num", "Float"}

\* one step of the fold the claim describes: Num with Num stays Num, a pair
\* with a Float is computed in floating point, anything else is no number
FoldStep(f, x, y) ==
  IF ~(IsNumeric(x) /\ IsNumeric(y)) THEN Err(NotANumber)
  ELSE IF x.t = "Float" \/ y.t = "Float"
    THEN Ok(FloatOp(f, Numer(x), Denom(x), Numer(y), Denom(y)))
  ELSE NumOp(f, x.n, y.n)

\* ((a1 op a2) op a3) .. op an
RECURSIVE LeftFold(_, _)
LeftFold(f, n) ==
  IF n = 1 THEN Ok(Arg(1))
  ELSE LET before == LeftFold(f, n - 1)
       IN IF IsOk(before) THEN FoldStep(f, before.v, Arg(n)) ELSE before

\* C9: on two or more arguments add, sub, mul, div, rem give the left fold,
\* each step Num for two Nums and Float when either is a Float, so the result
\* is a Num iff every argument is one; a non-numeric operand gives NotANumber.
\* (A fold that divides a Num by Num(0) has no value: that case is C22's.)
C9_ArithmeticFold ==
  (/\ IsCall
   /\ Callee \in {"add", "sub", "mul", "div", "rem"}
   /\ NArgs >= 2
   /\ AllChildrenOk
   /\ ~IsPanic(LeftFold(Callee, NArgs)))
  => /\ result = LeftFold(Callee, NArgs)
     /\ (\E i \in 1..NArgs : ~IsNumeric(Arg(i))) => result = Err(NotANumber)
     /\ (\A i \in 1..NArgs : IsNumeric(Arg(i)))
          => (IsOk(result) /\ (result.v.t = "Num" <=> \A i \in 1..NArgs : Arg(i).t = "Num"))

\* 2 - 1.5 - 1 is Float(-0.5): the Float of the second step stays a Float
C9_Witness ==
  /\ Evaluated
  /\ expr = List(<<Sym("sub"), Num(2), Float(3, 2), Num(1)>>)
  /\ result = Ok(Float(-1, 2))

\* C10: sub on exactly one number gives its negation: Num(n) gives Num(-n) and
\* Float(f) gives Float(-f).
C10_UnaryNegation ==
  (/\ IsCall
   /\ Callee = "sub"
   /\ NArgs = 1
   /\ AllArgsNumbers)
  => result = Ok(IF Arg(1).t = "Num" THEN Num(-Arg(1).n)
                 ELSE Float(-Arg(1).p, Arg(1).q))

----------------------------------------------------------------------------
(* C11..C13: and, or *)

\* some argument before the last one evaluates to Bool(false)
SomeEarlierFalse == \E i \in 1..(NArgs - 1) : Arg(i) = Bool(FALSE)

\* C11: an and call on two or more arguments that all evaluate gives
\* Bool(false) if one of the arguments before the last evaluates to
\* Bool(false), and the value of the last argument otherwise; every value
\* other than Bool(false), Num(0) included, counts as true.
C11_AndValue ==
  (/\ IsCall
   /\ Callee = "and"
   /\ NArgs >= 2
   /\ AllChildrenOk)
  => result = (IF SomeEarlierFalse THEN Ok(Bool(FALSE)) ELSE Child(NChildren))

\* (and 0 (2)): Num(0) counts as true and the last argument's value comes back
C11_Witness ==
  /\ Evaluated
  /\ expr = List(<<Sym("and"), Num(0), List(<<Num(2)>>)>>)
  /\ result = Ok(Num(2))

\* C12: an or call on two or more arguments that all evaluate gives the value
\* of the last argument if one of the arguments before it evaluates to
\* anything but Bool(false), and Bool(false) if all of them evaluate to
\* Bool(false), whatever the last argument is.
C12_OrValue ==
  (/\ IsCall
   /\ Callee = "or"
   /\ NArgs >= 2
   /\ AllChildrenOk)
  => result = (IF \E i \in 1..(NArgs - 1) : Arg(i) # Bool(FALSE)
               THEN Child(NChildren) ELSE Ok(Bool(FALSE)))

\* (or false true) is Bool(false): the last argument alone decides nothing
C12_Witness ==
  /\ Evaluated
  /\ expr = List(<<Sym("or"), Sym("false"), Sym("true")>>)
  /\ result = Ok(Bool(FALSE))

\* the arguments before position i all evaluate
EvaluateUpTo(i) == \A j \in 1..i : IsOk(Child(j + 1))

\* C13: and, or stop evaluating once the result is determined: an and call
\* with an argument before the last evaluating to Bool(false), every argument
\* before it evaluating, gives Bool(false) whatever the later arguments would
\* do, and so does an or call whose arguments before the last all evaluate to
\* Bool(false), whatever the last one would do.
C13_ShortCircuit ==
  /\ (/\ IsCall
      /\ Callee = "and"
      /\ NArgs >= 2
      /\ \E i \in 1..(NArgs - 1) : EvaluateUpTo(i) /\ Arg(i) = Bool(FALSE))
     => result = Ok(Bool(FALSE))
  /\ (/\ IsCall
      /\ Callee = "or"
      /\ NArgs >= 2
      /\ EvaluateUpTo(NArgs - 1)
      /\ \A i \in 1..(NArgs - 1) : Arg(i) = Bool(FALSE))
     => result = Ok(Bool(FALSE))

----------------------------------------------------------------------------
(* C14, C16: the environment (under EnvSpec) *)

\* what the environment holds for a name, by the history of the session: the
\* value of the latest put, else what Env::new installed, else nothing
Bound(name) ==
  IF name \in DOMAIN puts THEN Ok(puts[name])
  ELSE IF name \in DOMAIN EnvNew THEN Ok(EnvNew[name])
  ELSE Err(UnknownFunction(name))

\* C14: eval of Sym(name) gives the value currently bound to name, and fails
\* with UnknownFunction(name), carrying that name, iff name was neither
\* installed by Env::new nor put.
C14_SymbolLookup ==
  (op = "eval" /\ expr.t = "Sym") => result = Bound(expr.s)

\* after puts over a, b, true or add, the name u is still unknown
C14_Witness ==
  /\ op = "eval"
  /\ expr = Sym("u")
  /\ puts # NoPuts
  /\ result = Err(UnknownFunction("u"))

\* C16: after any sequence of puts, get(name) gives the value of the latest
\* put of that name, whether the name was absent, bound to another value or
\* installed by Env::new; every name not put since holds what it held, and a
\* get changes nothing.
C16_GetLatestPut ==
  /\ \A name \in DOMAIN env \cup DOMAIN puts : EnvGet(env, name) = Bound(name)
  /\ op = "get" => result = Bound(expr.s)

\* true was put over the constant and a put twice: get gives the later values
C16_Witness ==
  /\ op = "get"
  /\ expr = Sym("true")
  /\ result = Ok(Num(2))
  /\ "a" \in DOMAIN puts
  /\ env["a"] = Time(1)
  /\ env["add"] = EnvNew["add"]

----------------------------------------------------------------------------
(* C15: lists that are no calls *)

\* C15: a List of one child that evaluates to a value other than a Fun gives
\* that value, so (2), (nil) and ((2)) give Num(2), Bool(false) and Num(2);
\* the empty List gives itself.
C15_WrapperCollapses ==
  /\ (/\ Evaluated
      /\ expr.t = "List"
      /\ NChildren = 1
      /\ IsOk(Child(1))
      /\ Child(1).v.t # "Fun")
     => result = Child(1)
  /\ (Evaluated /\ expr = List(<<>>)) => result = Ok(List(<<>>))

\* ((2)) gives Num(2): both wrappers are gone
C15_Witness ==
  /\ Evaluated
  /\ expr = List(<<List(<<Num(2)>>)>>)
  /\ result = Ok(Num(2))

----------------------------------------------------------------------------
(* C17: round trip of atoms (under TripSpec) *)

\* C17: a literal integer, float (one with an integral value included),
\* boolean or clock time, rendered, parsed and evaluated in a fresh
\* environment, comes back as a value of the same variant and value.
C17_AtomRoundTrip ==
  (atom # NoTree /\ op \in {"parse", "eval"})
  => /\ expr # NoTree
     /\ op = "eval" => result = Ok(atom)

----------------------------------------------------------------------------
(* C18: ne *)

PairwiseDistinct(n) ==
  \A i \in 1..n : \A j \in 1..n : i # j => ~NumEqual(Arg(i), Arg(j))

\* C18: on numbers, Num or Float, ne gives Bool(true) iff the arguments are
\* pairwise distinct and Bool(false) otherwise; an argument that is no number,
\* reached while the numbers before it are pairwise distinct, gives
\* NotANumber.
C18_NePairwiseDistinct ==
  /\ (/\ IsCall
      /\ Callee = "ne"
      /\ NArgs >= 2
      /\ AllArgsNumbers)
     => result = Ok(Bool(PairwiseDistinct(NArgs)))
  /\ (/\ IsCall
      /\ Callee = "ne"
      /\ NArgs >= 1
      /\ AllChildrenOk
      /\ \E i \in 1..NArgs :
           /\ ~IsNumber(Arg(i))
           /\ \A j \in 1..(i - 1) : IsNumber(Arg(j))
           /\ PairwiseDistinct(i - 1))
     => result = Err(NotANumber)

----------------------------------------------------------------------------
(* C19: the sensor driver (under RtdSpec) *)

\* the bus reads of the last call
BusReads == {i \in 1..Len(i2c) : i2c[i].op = "read"}

\* the command write of the last call failed
WriteFailed == \E i \in 1..Len(i2c) : i2c[i].op = "write" /\ ~i2c[i].ok

\* the last call was read_response on its own
OnItsOwn == Len(i2c) = 1 /\ BusReads = {1}

\* C19: a response is classified by the outcome of the bus read and the first
\* byte received alone: a failed read gives I2c, first byte 1 success with the
\* bytes received in the buffer, 254 NotReady, 2 SyntaxError, any other byte
\* ParseError; and no bus read follows a command write that failed.
C19_ResponseClassified ==
  answer # NoResult =>
    /\ WriteFailed => (answer = ErrorI2c /\ BusReads = {})
    /\ \A i \in BusReads :
         IF ~i2c[i].ok THEN answer = ErrorI2c
         ELSE CASE i2c[i].bytes[1] = 254 -> answer = ErrorNotReady
                [] i2c[i].bytes[1] = 2 -> answer = ErrorSyntaxError
                [] i2c[i].bytes[1] = 1 ->
                     /\ buffer = i2c[i].bytes
                     /\ OnItsOwn => answer = Ok(Unit)
                     /\ answer \notin {ErrorI2c, ErrorNotReady, ErrorSyntaxError}
                [] OTHER -> answer = ErrorParseError

\* read() after a good write and the response 1 '1' '.': the temperature 1.0
C19_Witness ==
  /\ i2c = <<WriteTransaction("R", TRUE), ReadTransaction(<<1, 49, 46>>, TRUE)>>
  /\ buffer = <<1, 49, 46>>
  /\ answer = Ok(Float(1, 1))

----------------------------------------------------------------------------
(* C20: arity *)

ArityBuiltins == {"if", "now", "and", "or", "not"}

\* the number of arguments a builtin asks for, as it reports it
ExpectedArgs(f) ==
  CASE f = "if" -> 3
    [] f = "now" -> 0
    [] f = "and" -> 2
    [] f = "or" -> 2
    [] f = "not" -> 1

ArityOk(f, n) == IF f \in {"and", "or"} THEN n >= 2 ELSE n = ExpectedArgs(f)

\* C20: if, now, and, or, not called with a wrong number n of arguments give
\* NumArguments(expected, n): 3 for if, 0 for now, 2 for and, or (which take
\* 2 or more), 1 for not; with a right number none of them gives NumArguments.
C20_ArityErrors ==
  (/\ IsCall
   /\ Callee \in ArityBuiltins
   /\ AllChildrenOk)
  => IF ArityOk(Callee, NArgs)
     THEN ~(IsErr(result) /\ result.e.e = "NumArguments")
     ELSE result = Err(NumArguments(ExpectedArgs(Callee), NArgs))

\* (if true 1): two arguments where three are asked for
C20_Witness ==
  /\ Evaluated
  /\ expr = List(<<Sym("if"), Sym("true"), Num(1)>>)
  /\ result = Err(NumArguments(3, 2))

----------------------------------------------------------------------------
(* C21: eval and the environment *)

\* the bindings by the history of the session: what Env::new installed,
\* overlaid with the latest put of every name put
EnvByHistory ==
  [name \in DOMAIN EnvNew \cup DOMAIN puts |->
     IF name \in DOMAIN puts THEN puts[name] ELSE EnvNew[name]]

\* C21: eval never changes the environment: after every evaluation, failed
\* or not, whichever builtins it called, the names bound and their values are
\* those the puts before it left.
C21_EvalLeavesEnv == Evaluated => env = EnvByHistory

\* a failed comparison of two bound instants: a and b hold what was put
C21_Witness ==
  /\ Evaluated
  /\ expr = List(<<Sym("gt"), Sym("a"), Sym("b")>>)
  /\ IsErr(result)
  /\ DOMAIN puts = {"a", "b"}
  /\ env["a"] = puts["a"] /\ env["b"] = puts["b"]

----------------------------------------------------------------------------
(* C22..C25: failures of the fold builtins and of the empty program *)

\* C22: div or rem on Num arguments with a Num(0) divisor at some fold step
\* fails with an error eval returns; it gives no value and does not abort.
C22_DivisionByZeroIsError ==
  (/\ IsCall
   /\ Callee \in {"div", "rem"}
   /\ NArgs >= 2
   /\ AllChildrenOk
   /\ \A i \in 1..NArgs : Arg(i).t = "Num"
   /\ \E i \in 2..NArgs : Arg(i) = Num(0))
  => IsErr(result)

\* the pairs the partial order covers: two numbers, or two instants of the
\* same variant
OrderedPair(x, y) ==
  \/ IsNumeric(x) /\ IsNumeric(y)
  \/ IsTemporal(x) /\ y.t = x.t

C24_NoArgumentsNoAbort ==
  (/\ IsCall
   /\ Callee \in FoldBuiltins \cup {"ne"}
   /\ NArgs = 0)
  => ~IsPanic(result)

\* C25: eval of a program of no forms ends with a value or an error eval
\* returns; it does not abort.
C25_EmptyProgramNoAbort ==
  (Evaluated /\ expr = Risp(<<>>)) => ~IsPanic(result)

----------------------------------------------------------------------------
(* C26: re-evaluation (under RerunSpec) *)

\* C26: evaluating a parsed program leaves the caller's tree as it was
\* parsed, so every run, the first or a later one, gives what the program as
\* parsed gives under the bindings of that run: the same result under the
\* same bindings, and a changed binding shows in the next result.
C26_RerunStable ==
  op \in {"run", "rerun"}
  => /\ tree = expr
     /\ result = Eval([data |-> env, now |-> 0], expr)

\* a later run of (a) (add a b) after a and b were put: 1 + 2
C26_Witness ==
  /\ op = "rerun"
  /\ expr = Risp(<<List(<<Sym("a")>>), List(<<Sym("add"), Sym("a"), Sym("b")>>)>>)
  /\ tree = expr
  /\ puts = [a |-> Num(1), b |-> Num(2)]
  /\ result = Ok(Num(3))

====
